---- MODULE Spec2Model ----
(***************************************************************************)
(* A model of wireviz.parse(): the connection-set interpreter that turns   *)
(* the "connections" section of a harness document into connector and      *)
(* cable instances, Connections and Mates.                                 *)
(*                                                                         *)
(* Strings are modelled as sequences of one-character strings, so that     *)
(* splitting at the template separator, formatting an auto-generated       *)
(* designator and recognising an arrow are computed, not assumed.          *)
(* Python's 0-based positions are kept 1-based here; where the code tests  *)
(* an index against 0 the model tests (index - 1) against 0.               *)
(***************************************************************************)
EXTENDS Integers, Sequences, FiniteSets, TLC

VARIABLES
    template_connectors,        \* keys of the connector template dict
    template_cables,            \* keys of the cable template dict
    connection_sets,            \* yaml_data["connections"], as loaded
    designators_and_templates,  \* designator -> template
    autogenerated_designators,  \* template -> last auto-number handed out
    connectors,                 \* keys of harness.connectors
    cables,                     \* keys of harness.cables
    connections,                \* Connections recorded by harness.connect
    mates,                      \* Mates recorded by harness.add_mate_*
    expected_type,              \* the alternation checker's expected label
    connection_set,             \* the row being processed (rewritten in place)
    connectioncount,            \* the row's connection count
    row,                        \* number of rows already processed
    index,                      \* position of the running loop (1-based)
    subindex,                   \* position of the running inner loop (1-based)
    pc,                         \* where parse() is
    err,                        \* the exception that ended the pass, or "none"
    warning,                    \* the templates named by the final warning
    calls,                      \* history: every resolve_designator call
    instantiated,               \* history: every add_connector / add_cable call
    edges                       \* history: every connect / add_mate_* call

vars == <<template_connectors, template_cables, connection_sets,
          designators_and_templates, autogenerated_designators, connectors,
          cables, connections, mates, expected_type, connection_set,
          connectioncount, row, index, subindex, pc, err, warning, calls,
          instantiated, edges>>

-----------------------------------------------------------------------------
(* Bounds of the model.                                                    *)

MaxRows == 2

MaxRowLen == 3

MaxCalls == 4

-----------------------------------------------------------------------------
(* Strings.                                                                *)

\* Python's None where a name is expected.
None == <<"None">>

\* Python's None where a pin is expected (pins are positive integers).
NonePin == -1

\* harness.options.template_separator
template_separator_char == "."

\* separator in inp
Contains(s, c) == \E i \in 1..Len(s) : s[i] = c

\* inp.count(separator)
Count(s, c) == Cardinality({i \in 1..Len(s) : s[i] = c})

FirstIndex(s, c) == CHOOSE i \in 1..Len(s) : s[i] = c /\ \A j \in 1..(i-1) : s[j] # c

\* inp.split(separator)[0], for an inp holding the separator once
SplitLeft(s, c) == SubSeq(s, 1, FirstIndex(s, c) - 1)

\* inp.split(separator)[1], for an inp holding the separator once
SplitRight(s, c) == SubSeq(s, FirstIndex(s, c) + 1, Len(s))

Digit(d) == <<"0", "1", "2", "3", "4", "5", "6", "7", "8", "9">>[d + 1]

RECURSIVE IntToStr(_)
\* str(n), as the f-string formats the counter
IntToStr(n) == IF n < 10 THEN <<Digit(n)>> ELSE IntToStr(n \div 10) \o <<Digit(n % 10)>>

\* f"__{template}_{n}"
AutoName(template, n) == <<"_", "_">> \o template \o <<"_">> \o IntToStr(n)

\* helper.is_arrow: ^\s*<?(-+|=+)>?\s*$ on a token without blanks
is_arrow(s) ==
    LET a == IF Len(s) > 0 /\ s[1] = "<" THEN 2 ELSE 1
        b == IF Len(s) > 0 /\ s[Len(s)] = ">" THEN Len(s) - 1 ELSE Len(s)
    IN  /\ b >= a
        /\ \/ \A i \in a..b : s[i] = "-"
           \/ \A i \in a..b : s[i] = "="

\* a dict after d[k] = v
Put(f, k, v) == [x \in (DOMAIN f) \cup {k} |-> IF x = k THEN v ELSE f[x]]

\* d.get(k, 0)
Get0(f, k) == IF k \in DOMAIN f THEN f[k] ELSE 0

Empty == [x \in {} |-> 0]

-----------------------------------------------------------------------------
(* resolve_designator                                                      *)

\* the counter read but not advanced
NextAutoIndexStale(ag, template) == IF template \in DOMAIN ag THEN ag[template] ELSE 1

\* autogenerated_designators.get(template, 0) + 1
NextAutoIndex(ag, template) == Get0(ag, template) + 1

RecordAlways(dt, designator, template) == Put(dt, designator, template)

\* if designator in designators_and_templates: (keep) else: record
RecordDesignator(dt, designator, template) ==
    IF designator \in DOMAIN dt THEN dt ELSE Put(dt, designator, template)

\* the check for redefining an existing component to a different template
IsRedefinition(dt, designator, template) ==
    designator \in DOMAIN dt /\ dt[designator] # template

Resolved(e, template, designator, dt, ag) ==
    [err |-> e, template |-> template, designator |-> designator, dt |-> dt, ag |-> ag]

\* the count of separators checked after the token is split and recorded
ResolveBeforeCount(inp, separator, dt, ag) ==
    IF Contains(inp, separator)
    THEN LET template == SplitLeft(inp, separator)
             given == SplitRight(inp, separator)
             ag2 == IF given = <<>>
                    THEN Put(ag, template, NextAutoIndex(ag, template))
                    ELSE ag
             designator == IF given = <<>>
                           THEN AutoName(template, ag2[template])
                           ELSE given
         IN  IF IsRedefinition(dt, designator, template)
             THEN Resolved("redefinition", template, designator, dt, ag2)
             ELSE IF Count(inp, separator) > 1
             THEN Resolved("ambiguous", <<>>, <<>>,
                           RecordDesignator(dt, designator, template), ag2)
             ELSE Resolved("none", template, designator,
                           RecordDesignator(dt, designator, template), ag2)
    ELSE Resolved("none", inp, inp, RecordDesignator(dt, inp, inp), ag)

\* The call resolve_designator(inp, separator) in resolver state (dt, ag): the
\* pair it returns, the state it leaves, and the exception it raises if any.
resolve_designator(inp, separator, dt, ag) ==
    IF Contains(inp, separator)
    THEN IF Count(inp, separator) > 1
         THEN Resolved("ambiguous", <<>>, <<>>, dt, ag)
         ELSE LET template == SplitLeft(inp, separator)
                  given == SplitRight(inp, separator)
                  ag2 == IF given = <<>>
                         THEN Put(ag, template, NextAutoIndex(ag, template))
                         ELSE ag
                  designator == IF given = <<>>
                                THEN AutoName(template, ag2[template])
                                ELSE given
              IN  IF IsRedefinition(dt, designator, template)
                  THEN Resolved("redefinition", template, designator, dt, ag2)
                  ELSE Resolved("none", template, designator,
                                RecordDesignator(dt, designator, template), ag2)
    ELSE Resolved("none", inp, inp, RecordDesignator(dt, inp, inp), ag)

Call(inp, r) == [inp |-> inp, err |-> r.err, template |-> r.template, designator |-> r.designator]

-----------------------------------------------------------------------------
(* Rows of the document.  A raw row element is a scalar token, a list of   *)
(* tokens, or a single-key mapping {token: pin-range expression}.  The     *)
(* code rewrites the row in place; "pins" is the element after the pin     *)
(* lists are expanded and "strand" is an element of the transposed row.    *)

Str(t) == [kind |-> "str", tok |-> t, items |-> <<>>, value |-> <<>>, pins |-> <<>>]

Lst(ts) == [kind |-> "list", tok |-> <<>>, items |-> ts, value |-> <<>>, pins |-> <<>>]

Map(k, v) == [kind |-> "dict", tok |-> k, items |-> <<>>, value |-> v, pins |-> <<>>]

Pins(ps) == [kind |-> "pins", tok |-> <<>>, items |-> <<>>, value |-> <<>>, pins |-> ps]

Strand(ps) == [kind |-> "strand", tok |-> <<>>, items |-> <<>>, value |-> <<>>, pins |-> ps]

\* {designator: pin}
Item(designator, pin) == [des |-> designator, pin |-> pin]

\* helper.get_single_key_and_value
get_single_key_and_value(item) == <<item.des, item.pin>>

\* One part of a pin-range expression: <<n>> is the pin n, <<a, b>> is "a-b".
ExpandPart(p) ==
    IF Len(p) = 1 THEN <<p[1]>>
    ELSE IF p[1] <= p[2]
         THEN [k \in 1..(p[2] - p[1] + 1) |-> p[1] + k - 1]
         ELSE [k \in 1..(p[1] - p[2] + 1) |-> p[1] - k + 1]

RECURSIVE expand(_)
\* helper.expand: the pins of a pin-range expression, in written order
expand(v) == IF v = <<>> THEN <<>> ELSE ExpandPart(Head(v)) \o expand(Tail(v))

Repeat(x, n) == [k \in 1..n |-> x]

Min(S) == CHOOSE x \in S : \A y \in S : x <= y

-----------------------------------------------------------------------------
(* The connection count of a row.                                          *)

Contributing(cs) == SelectSeq(cs, LAMBDA e : e.kind \in {"list", "dict"})

\* len(entry) for a list, len(expand(value)) for a mapping
Candidate(e) == IF e.kind = "list" THEN Len(e.items) ELSE Len(expand(e.value))

\* the list connectioncount after the loop over the entries
CandidateList(cs) == [k \in 1..Len(Contributing(cs)) |-> Candidate(Contributing(cs)[k])]

\* any(connectioncount)
AnyNonZero(cand) == \E k \in 1..Len(cand) : cand[k] # 0

\* if not any(connectioncount): connectioncount = [1]
CountOrDefault(cand) == IF ~AnyNonZero(cand) THEN <<1>> ELSE cand

\* len(set(connectioncount)) > 1
Inconsistent(cand) == Cardinality({cand[k] : k \in 1..Len(cand)}) > 1

-----------------------------------------------------------------------------
(* The alternation check.                                                  *)

alternating_types == <<"connector", "cable/arrow">>

\* the expected label flipped by every check, not once per entry
CheckTypeFlipping(actual_type, expected) ==
    LET e == IF expected = "None" THEN actual_type ELSE expected
    IN  [expected |-> IF e = alternating_types[1]
                      THEN alternating_types[2] ELSE alternating_types[1],
         raises |-> actual_type # e]

\* check_type: the expected label it leaves and whether it raises
check_type(actual_type, expected) ==
    LET e == IF expected = "None" THEN actual_type ELSE expected
    IN  [expected |-> e, raises |-> actual_type # e]

\* alternate_type, for an expected label that is set
alternate_type(expected) ==
    IF expected = alternating_types[1] THEN alternating_types[2] ELSE alternating_types[1]

\* the expected label carried over from the row before
ResetExpectedKept(expected) == expected

\* expected_type = None at the beginning of every connection set
ResetExpected(expected) == "None"

\* the tests for an existing instance left out: every reference instantiates
ClassifyIgnoringInstances(designator, template, conn, cab, tconn, tcab) ==
    IF template \in tconn THEN [type |-> "connector", add |-> "connector"]
    ELSE IF template \in tcab THEN [type |-> "cable/arrow", add |-> "cable"]
    ELSE IF is_arrow(designator) THEN [type |-> "cable/arrow", add |-> "none"]
    ELSE [type |-> "unknown", add |-> "none"]

\* an arrow of an undeclared template instantiated like a cable
ClassifyArrowAsCable(designator, template, conn, cab, tconn, tcab) ==
    IF designator \in conn THEN [type |-> "connector", add |-> "none"]
    ELSE IF template \in tconn THEN [type |-> "connector", add |-> "connector"]
    ELSE IF designator \in cab THEN [type |-> "cable/arrow", add |-> "none"]
    ELSE IF template \in tcab \/ is_arrow(designator)
         THEN [type |-> "cable/arrow", add |-> "cable"]
    ELSE [type |-> "unknown", add |-> "none"]

\* a designator of an undeclared template taken for a new connector
ClassifyUndeclaredAsConnector(designator, template, conn, cab, tconn, tcab) ==
    IF designator \in conn THEN [type |-> "connector", add |-> "none"]
    ELSE IF designator \in cab THEN [type |-> "cable/arrow", add |-> "none"]
    ELSE IF template \in tcab THEN [type |-> "cable/arrow", add |-> "cable"]
    ELSE IF is_arrow(designator) THEN [type |-> "cable/arrow", add |-> "none"]
    ELSE [type |-> "connector", add |-> "connector"]

\* The label of a sub-item and the instance to create, by the priority order
\* of the generate-components loop.
Classify(designator, template, conn, cab, tconn, tcab) ==
    IF designator \in conn THEN [type |-> "connector", add |-> "none"]
    ELSE IF template \in tconn THEN [type |-> "connector", add |-> "connector"]
    ELSE IF designator \in cab THEN [type |-> "cable/arrow", add |-> "none"]
    ELSE IF template \in tcab THEN [type |-> "cable/arrow", add |-> "cable"]
    ELSE IF is_arrow(designator) THEN [type |-> "cable/arrow", add |-> "none"]
    ELSE [type |-> "unknown", add |-> "none"]

\* list(map(list, zip(*connection_set)))
Transposed(cs) ==
    IF cs = <<>> THEN <<>>
    ELSE LET n == Min({Len(cs[p].pins) : p \in 1..Len(cs)})
         IN  [k \in 1..n |-> Strand([p \in 1..Len(cs) |-> cs[p].pins[k]])]

-----------------------------------------------------------------------------
(* The harness (wireviz.harness.Harness), at its interface.                *)

\* harness.add_connector(name=designator, ...) / harness.add_cable(name=designator, ...)
add_component(instances, designator) == instances \cup {designator}

\* harness.connect(from_name, from_pin, via_name, via_pin, to_name, to_pin)
Connection(from, via, to) ==
    [from_name |-> from[1], from_pin |-> from[2], via_name |-> via[1],
     via_pin |-> via[2], to_name |-> to[1], to_pin |-> to[2]]

\* harness.add_mate_pin(from_name, from_pin, to_name, to_pin, designator)
MatePin(from, to, designator) ==
    [kind |-> "pin", from_name |-> from[1], from_pin |-> from[2],
     to_name |-> to[1], to_pin |-> to[2], arrow |-> designator]

\* harness.add_mate_component(from_name, to_name, designator)
MateComponent(from, to, designator) ==
    [kind |-> "component", from_name |-> from[1], from_pin |-> NonePin,
     to_name |-> to[1], to_pin |-> NonePin, arrow |-> designator]

\* history record of one recorded edge: which row, strand and position made it
Edge(op, r, strand, pos) == [op |-> op, row |-> r, strand |-> strand, pos |-> pos]

-----------------------------------------------------------------------------
(* Inputs: tokens, row elements, rows and documents.                       *)

X1 == <<"X", "1">>

X2 == <<"X", "2">>

W1 == <<"W", "1">>

Dot == <<template_separator_char>>

\* "X1.X2" and "W1.X2": the designator X2 from two different templates
X1_X2 == X1 \o Dot \o X2

W1_X2 == W1 \o Dot \o X2

\* "X1." and "W1.": anonymous instances
X1_anon == X1 \o Dot

W1_anon == W1 \o Dot

\* "X1.__X1_1" and "W1.__X1_1": a written designator that looks auto-generated
X1_auto1 == X1 \o Dot \o AutoName(X1, 1)

W1_auto1 == W1 \o Dot \o AutoName(X1, 1)

\* "X1.X2.X2": more than one separator
TwoSeparators == X1 \o Dot \o X2 \o Dot \o X2

\* "-->" and "==>"
PinArrow == <<"-", "-", ">">>

ComponentArrow == <<"=", "=", ">">>

\* "X1.-->": an instance of template X1 with an arrow for its designator
X1_arrow == X1 \o Dot \o PinArrow

Tokens ==
    {X1, X2, W1, X1_X2, W1_X2, X1_anon, W1_anon, X1_auto1, W1_auto1,
     TwoSeparators, PinArrow, ComponentArrow}

\* pin-range expressions "1-2", "2-1", "1-3" and the single pin 3
Range12 == << <<1, 2>> >>

Range21 == << <<2, 1>> >>

Range13 == << <<1, 3>> >>

Pin3 == << <<3>> >>

\* the row elements every row of up to MaxRowLen elements is built from
Elements ==
    {Str(X1), Str(X2), Str(W1), Str(X1_X2), Str(PinArrow),
     Str(ComponentArrow), Lst(<<>>), Lst(<<X1_anon, X1_anon>>), Lst(<<X1, W1>>),
     Lst(<<PinArrow, ComponentArrow>>), Map(W1, Range12), Map(X1, Range21),
     Map(X1_X2, Pin3)}

GrammarRows == UNION {[1..n -> Elements] : n \in 0..MaxRowLen}

\* the rows the documents of several rows are built from
DocumentRows ==
    {<<Str(X1), Str(W1), Str(X2)>>,
     <<Map(X1, Range13), Map(W1, Range13), Map(X1_X2, Range13)>>,
     <<Str(X1), Str(W1)>>,
     <<Str(W1), Str(X1)>>,
     <<Str(W1)>>,
     <<Str(X1), Str(X1)>>,
     <<Str(X1), Str(PinArrow), Str(X1_X2)>>,
     <<Str(X1), Str(ComponentArrow), Str(X1_X2)>>,
     <<Str(X2), Str(W1)>>,
     <<Str(W1_X2)>>,
     <<Str(X1_anon), Str(W1_anon), Str(X1_anon)>>,
     <<Str(X1_auto1), Str(W1), Str(X1_anon)>>,
     <<Str(W1_auto1), Str(X1_anon)>>,
     <<Lst(<<X1_anon, X1_anon>>), Map(W1, Range12), Map(X1_X2, Range21)>>,
     <<Map(X1, Range21), Str(ComponentArrow), Lst(<<X1_anon, X1_anon>>)>>,
     <<Map(X1, Range12), Str(PinArrow), Map(X1_X2, Range21), Map(W1, Range12)>>,
     <<Str(PinArrow), Lst(<<>>)>>,
     <<Str(W1), Lst(<<>>)>>,
     <<Str(X1), Str(PinArrow)>>,
     <<Lst(<<X1, W1>>)>>,
     <<Str(TwoSeparators)>>,
     <<Str(W1), Str(X1_arrow), Str(W1)>>}

Documents ==
    {<<r>> : r \in GrammarRows} \cup UNION {[1..n -> DocumentRows] : n \in 0..MaxRows}

\* the declared templates: the keys of the connectors and cables sections
Registries ==
    {[connectors |-> {X1}, cables |-> {W1}],
     [connectors |-> {X1, X2}, cables |-> {W1}],
     [connectors |-> {X1, W1}, cables |-> {W1}]}

-----------------------------------------------------------------------------
(* parse(): the state after the sections are loaded.                       *)

Init ==
    /\ \E reg \in Registries :
          /\ template_connectors = reg.connectors
          /\ template_cables = reg.cables
    /\ connection_sets \in Documents
    /\ designators_and_templates = Empty
    /\ autogenerated_designators = Empty
    /\ connectors = {}
    /\ cables = {}
    /\ connections = <<>>
    /\ mates = <<>>
    /\ expected_type = "None"
    /\ connection_set = <<>>
    /\ connectioncount = 0
    /\ row = 0
    /\ index = 1
    /\ subindex = 1
    /\ pc = "rows"
    /\ err = "none"
    /\ warning = {}
    /\ calls = <<>>
    /\ instantiated = <<>>
    /\ edges = <<>>

Raise(e) == pc' = "error" /\ err' = e

resolver == <<designators_and_templates, autogenerated_designators, calls>>

harness == <<connectors, cables, connections, mates, instantiated, edges>>

document == <<template_connectors, template_cables, connection_sets>>

\* for connection_set in connection_sets: the connection count of the next row
CountConnections ==
    /\ pc = "rows"
    /\ row < Len(connection_sets)
    /\ LET cs == connection_sets[row + 1]
           cand == CountOrDefault(CandidateList(cs))
       IN  /\ connection_set' = cs
           /\ IF Inconsistent(cand)
              THEN Raise("inconsistent_count") /\ UNCHANGED connectioncount
              ELSE /\ connectioncount' = cand[1]
                   /\ pc' = "expand_strings"
                   /\ UNCHANGED err
    /\ UNCHANGED <<document, resolver, harness, expected_type, row, index, subindex, warning>>

\* expand string entries to list entries of correct length
ExpandStrings ==
    /\ pc = "expand_strings"
    /\ connection_set' =
          [p \in 1..Len(connection_set) |->
             IF connection_set[p].kind = "str"
             THEN Lst(Repeat(connection_set[p].tok, connectioncount))
             ELSE connection_set[p]]
    /\ pc' = "resolve"
    /\ index' = 1
    /\ subindex' = 1
    /\ UNCHANGED <<document, resolver, harness, expected_type, connectioncount, row, err, warning>>

\* resolve all designators: one item of a list entry
ResolveItem ==
    /\ pc = "resolve"
    /\ index <= Len(connection_set)
    /\ connection_set[index].kind = "list"
    /\ subindex <= Len(connection_set[index].items)
    /\ LET item == connection_set[index].items[subindex]
           r == resolve_designator(item, template_separator_char,
                                   designators_and_templates, autogenerated_designators)
       IN  /\ designators_and_templates' = r.dt
           /\ autogenerated_designators' = r.ag
           /\ calls' = Append(calls, Call(item, r))
           /\ IF r.err # "none"
              THEN Raise(r.err) /\ UNCHANGED <<connection_set, subindex>>
              ELSE /\ connection_set' =
                        [connection_set EXCEPT ![index].items[subindex] = r.designator]
                   /\ subindex' = subindex + 1
                   /\ UNCHANGED <<pc, err>>
    /\ UNCHANGED <<document, harness, expected_type, connectioncount, row, index, warning>>

\* resolve all designators: the list entry is done, on to the next entry
ResolveNextEntry ==
    /\ pc = "resolve"
    /\ index <= Len(connection_set)
    /\ connection_set[index].kind = "list"
    /\ subindex > Len(connection_set[index].items)
    /\ index' = index + 1
    /\ subindex' = 1
    /\ UNCHANGED <<document, resolver, harness, expected_type, connection_set,
                   connectioncount, row, pc, err, warning>>

\* resolve all designators: the key of a mapping entry
ResolveKey ==
    /\ pc = "resolve"
    /\ index <= Len(connection_set)
    /\ connection_set[index].kind = "dict"
    /\ LET key == connection_set[index].tok
           r == resolve_designator(key, template_separator_char,
                                   designators_and_templates, autogenerated_designators)
       IN  /\ designators_and_templates' = r.dt
           /\ autogenerated_designators' = r.ag
           /\ calls' = Append(calls, Call(key, r))
           /\ IF r.err # "none"
              THEN Raise(r.err) /\ UNCHANGED <<connection_set, index>>
              ELSE /\ connection_set' =
                        [connection_set EXCEPT
                           ![index] = Map(r.designator, connection_set[index].value)]
                   /\ index' = index + 1
                   /\ UNCHANGED <<pc, err>>
    /\ UNCHANGED <<document, harness, expected_type, connectioncount, row, subindex, warning>>

\* expand all pin lists, then reset the check for alternating types
ExpandPins ==
    /\ pc = "resolve"
    /\ index > Len(connection_set)
    /\ connection_set' =
          [p \in 1..Len(connection_set) |->
             LET entry == connection_set[p]
             IN  IF entry.kind = "list"
                 THEN Pins([k \in 1..Len(entry.items) |-> Item(entry.items[k], 1)])
                 ELSE Pins([k \in 1..Len(expand(entry.value)) |->
                              Item(entry.tok, expand(entry.value)[k])])]
    /\ expected_type' = ResetExpected(expected_type)
    /\ pc' = "generate"
    /\ index' = 1
    /\ subindex' = 1
    /\ UNCHANGED <<document, resolver, harness, connectioncount, row, err, warning>>

\* generate components: one sub-item of one entry
GenerateItem ==
    /\ pc = "generate"
    /\ index <= Len(connection_set)
    /\ subindex <= Len(connection_set[index].pins)
    /\ LET designator == connection_set[index].pins[subindex].des
           template == designators_and_templates[designator]
           c == Classify(designator, template, connectors, cables,
                         template_connectors, template_cables)
           t == check_type(c.type, expected_type)
       IN  IF c.type = "unknown"
           THEN /\ Raise("unknown_reference")
                /\ UNCHANGED <<expected_type, connectors, cables, instantiated, subindex>>
           ELSE /\ expected_type' = t.expected
                /\ IF t.raises
                   THEN /\ Raise("alternation")
                        /\ UNCHANGED <<connectors, cables, instantiated, subindex>>
                   ELSE /\ connectors' = IF c.add = "connector"
                                         THEN add_component(connectors, designator)
                                         ELSE connectors
                        /\ cables' = IF c.add = "cable"
                                     THEN add_component(cables, designator)
                                     ELSE cables
                        /\ instantiated' =
                             IF c.add = "none" THEN instantiated
                             ELSE Append(instantiated,
                                         [kind |-> c.add, name |-> designator,
                                          template |-> template, row |-> row + 1])
                        /\ subindex' = subindex + 1
                        /\ UNCHANGED <<pc, err>>
    /\ UNCHANGED <<document, resolver, connections, mates, edges, connection_set,
                   connectioncount, row, index, warning>>

\* alternate_type(), after the sub-items of an entry
AlternateType ==
    /\ pc = "generate"
    /\ index <= Len(connection_set)
    /\ subindex > Len(connection_set[index].pins)
    /\ IF expected_type = "None"
       THEN Raise("value_error") /\ UNCHANGED <<expected_type, index, subindex>>
       ELSE /\ expected_type' = alternate_type(expected_type)
            /\ index' = index + 1
            /\ subindex' = 1
            /\ UNCHANGED <<pc, err>>
    /\ UNCHANGED <<document, resolver, harness, connection_set, connectioncount, row, warning>>

\* transpose connection set list
Transpose ==
    /\ pc = "generate"
    /\ index > Len(connection_set)
    /\ connection_set' = Transposed(connection_set)
    /\ pc' = "connect"
    /\ index' = 1
    /\ subindex' = 1
    /\ UNCHANGED <<document, resolver, harness, expected_type, connectioncount, row, err, warning>>

\* the two arrow characters taken for one another
IsPinMateSwapped(designator) == Contains(designator, "=")

\* "-" in designator
IsPinMate(designator) == Contains(designator, "-")

\* the test of the strand index left out
IsComponentMateAnyStrand(designator, index_entry) == Contains(designator, "=")

\* "=" in designator and index_entry == 0
IsComponentMate(designator, index_entry) ==
    Contains(designator, "=") /\ index_entry - 1 = 0

\* the sub-item to the left of position index_item of a strand, if any
FromOf(entry, index_item) ==
    IF index_item - 1 = 0 THEN <<None, NonePin>>
    ELSE get_single_key_and_value(entry[index_item - 1])

\* the sub-item to the right of position index_item of a strand, if any
ToOf(entry, index_item) ==
    IF index_item = Len(entry) THEN <<None, NonePin>>
    ELSE get_single_key_and_value(entry[index_item + 1])

\* the two loops nested the other way round
AdvanceStrandsInside(index_entry, index_item, strands, length) ==
    IF index_entry < strands THEN <<index_entry + 1, index_item>>
    ELSE IF index_item < length THEN <<1, index_item + 1>>
    ELSE <<strands + 1, 1>>

\* for index_entry, entry in enumerate(connection_set):
\*     for index_item, item in enumerate(entry):
\* the position after (index_entry, index_item)
AdvanceConnect(index_entry, index_item, strands, length) ==
    IF index_item = length THEN <<index_entry + 1, 1>> ELSE <<index_entry, index_item + 1>>

\* connect components: one sub-item of one strand (index = index_entry,
\* subindex = index_item)
ConnectItem ==
    /\ pc = "connect"
    /\ index <= Len(connection_set)
    /\ subindex <= Len(connection_set[index].pins)
    /\ LET entry == connection_set[index].pins
           item == entry[subindex]
           designator == item.des
           from == FromOf(entry, subindex)
           to == ToOf(entry, subindex)
           next == AdvanceConnect(index, subindex, Len(connection_set), Len(entry))
           advance == /\ index' = next[1]
                      /\ subindex' = next[2]
                      /\ UNCHANGED <<pc, err>>
       IN  IF designator \in cables
           THEN /\ connections' =
                     Append(connections, Connection(from, <<designator, item.pin>>, to))
                /\ edges' = Append(edges, Edge("connect", row + 1, index, subindex))
                /\ UNCHANGED mates
                /\ advance
           ELSE IF is_arrow(designator)
           THEN IF subindex - 1 = 0
                THEN /\ Raise("arrow_at_start")
                     /\ UNCHANGED <<connections, mates, edges, index, subindex>>
                ELSE IF subindex = Len(entry)
                THEN /\ Raise("arrow_at_end")
                     /\ UNCHANGED <<connections, mates, edges, index, subindex>>
                ELSE /\ IF IsPinMate(designator)
                        THEN /\ mates' = Append(mates, MatePin(from, to, designator))
                             /\ edges' = Append(edges, Edge("mate_pin", row + 1, index, subindex))
                        ELSE IF IsComponentMate(designator, index)
                        THEN /\ mates' = Append(mates, MateComponent(from, to, designator))
                             /\ edges' = Append(edges, Edge("mate_component", row + 1, index, subindex))
                        ELSE UNCHANGED <<mates, edges>>
                     /\ UNCHANGED connections
                     /\ advance
           ELSE /\ UNCHANGED <<connections, mates, edges>>
                /\ advance
    /\ UNCHANGED <<document, resolver, connectors, cables, instantiated, expected_type,
                   connection_set, connectioncount, row, warning>>

\* the strands of the row are done: on to the next connection set
EndRow ==
    /\ pc = "connect"
    /\ index > Len(connection_set)
    /\ row' = row + 1
    /\ pc' = "rows"
    /\ UNCHANGED <<document, resolver, harness, expected_type, connection_set,
                   connectioncount, index, subindex, err, warning>>

\* the designators, not their templates, taken for the used components
ForgottenByDesignator(tconn, tcab, dt) ==
    {c \in tconn \cup tcab : c \notin DOMAIN dt}

\* the templates that are the recorded template of no designator
forgotten_components(tconn, tcab, dt) ==
    {c \in tconn \cup tcab : c \notin {dt[d] : d \in DOMAIN dt}}

\* warn about unused templates; harness population completed
WarnUnused ==
    /\ pc = "rows"
    /\ row = Len(connection_sets)
    /\ warning' = forgotten_components(template_connectors, template_cables,
                                       designators_and_templates)
    /\ pc' = "done"
    /\ UNCHANGED <<document, resolver, harness, expected_type, connection_set,
                   connectioncount, row, index, subindex, err>>

Next ==
    \/ CountConnections
    \/ ExpandStrings
    \/ ResolveItem
    \/ ResolveNextEntry
    \/ ResolveKey
    \/ ExpandPins
    \/ GenerateItem
    \/ AlternateType
    \/ Transpose
    \/ ConnectItem
    \/ EndRow
    \/ WarnUnused

Spec == Init /\ [][Next]_vars

-----------------------------------------------------------------------------
(* The resolver alone: resolve_designator called on any sequence of tokens  *)
(* until a call raises.                                                     *)

InitResolver ==
    /\ template_connectors = {X1}
    /\ template_cables = {W1}
    /\ connection_sets = <<>>
    /\ designators_and_templates = Empty
    /\ autogenerated_designators = Empty
    /\ connectors = {}
    /\ cables = {}
    /\ connections = <<>>
    /\ mates = <<>>
    /\ expected_type = "None"
    /\ connection_set = <<>>
    /\ connectioncount = 0
    /\ row = 0
    /\ index = 1
    /\ subindex = 1
    /\ pc = "resolver"
    /\ err = "none"
    /\ warning = {}
    /\ calls = <<>>
    /\ instantiated = <<>>
    /\ edges = <<>>

ResolverCall(inp) ==
    /\ pc = "resolver"
    /\ Len(calls) < MaxCalls
    /\ LET r == resolve_designator(inp, template_separator_char,
                                   designators_and_templates, autogenerated_designators)
       IN  /\ designators_and_templates' = r.dt
           /\ autogenerated_designators' = r.ag
           /\ calls' = Append(calls, Call(inp, r))
           /\ IF r.err # "none" THEN Raise(r.err) ELSE UNCHANGED <<pc, err>>
    /\ UNCHANGED <<document, harness, expected_type, connection_set, connectioncount,
                   row, index, subindex, warning>>

NextResolver == \E inp \in Tokens : ResolverCall(inp)

SpecResolver == InitResolver /\ [][NextResolver]_vars

-----------------------------------------------------------------------------
(* Properties.                                                             *)

\* the document of the end-to-end example: connectors {X1}, cables {W1},
\* connections [[X1, W1, X2]]
IsExampleDocument ==
    /\ template_connectors = {X1}
    /\ template_cables = {W1}
    /\ connection_sets = << <<Str(X1), Str(W1), Str(X2)>> >>

\* the same harness with the wiring written out:
\* connections [[{X1: 1-3}, {W1: 1-3}, {X1.X2: 1-3}]]
IsWiredDocument ==
    /\ template_connectors = {X1}
    /\ template_cables = {W1}
    /\ connection_sets = << <<Map(X1, Range13), Map(W1, Range13), Map(X1_X2, Range13)>> >>

\* C1 as claimed: the example document builds without error into 2 connector
\* instances, 1 cable instance, 3 Connections and 0 mates.
C1_ExampleBuilds ==
    IsExampleDocument =>
        /\ pc # "error"
        /\ pc = "done" =>
              /\ Cardinality(connectors) = 2
              /\ Cardinality(cables) = 1
              /\ Len(connections) = 3
              /\ Len(mates) = 0

\* C1 as amended: the example document never completes; its pass ends with the
\* unknown-reference error at X2, having instantiated connector X1 and cable W1
\* and recorded no Connection and no Mate.  With the wiring written out the
\* pass completes with connectors X1 and X2, cable W1, one Connection
\* X1:p - W1:p - X2:p for each pin p of 1..3, and no Mate.
C1_ExampleFailsAtX2 ==
    /\ IsExampleDocument =>
          /\ pc # "done"
          /\ connections = <<>> /\ mates = <<>>
          /\ connectors \subseteq {X1} /\ cables \subseteq {W1}
          /\ pc = "error" =>
                /\ err = "unknown_reference"
                /\ connection_set[index].pins[subindex].des = X2
                /\ connectors = {X1} /\ cables = {W1}
    /\ IsWiredDocument =>
          /\ pc # "error"
          /\ pc = "done" =>
                /\ connectors = {X1, X2} /\ cables = {W1}
                /\ connections =
                      [p \in 1..3 |->
                         [from_name |-> X1, from_pin |-> p, via_name |-> W1,
                          via_pin |-> p, to_name |-> X2, to_pin |-> p]]
                /\ mates = <<>>

C1_Witness == IsExampleDocument /\ pc = "error" /\ err = "unknown_reference"

\* what a token says: its template and designator as written
TokenTemplate(inp) ==
    IF Contains(inp, template_separator_char)
    THEN SplitLeft(inp, template_separator_char) ELSE inp

TokenDesignator(inp) ==
    IF Contains(inp, template_separator_char)
    THEN SplitRight(inp, template_separator_char) ELSE inp

\* a step that makes one call of resolve_designator
IsCall == Len(calls') = Len(calls) + 1

ThisCall == calls'[Len(calls')]

ResolverUnchanged ==
    /\ designators_and_templates' = designators_and_templates
    /\ autogenerated_designators' = autogenerated_designators

\* the call is for a token, holding the separator at most once, whose
\* designator is already in the designator -> template map
IsRereference ==
    /\ IsCall
    /\ Count(ThisCall.inp, template_separator_char) <= 1
    /\ TokenDesignator(ThisCall.inp) \in DOMAIN designators_and_templates

\* C2 as claimed: for a token whose designator is already recorded, the call
\* raises nothing and changes nothing when the token's template is the recorded
\* one, and fails with the redefinition error when it is not, for tokens with
\* and without a separator alike.
C2_RereferenceOrRedefinition ==
    [][IsRereference =>
         IF TokenTemplate(ThisCall.inp)
              = designators_and_templates[TokenDesignator(ThisCall.inp)]
         THEN ThisCall.err = "none" /\ ResolverUnchanged
         ELSE ThisCall.err = "redefinition"]_vars

\* C2 as amended: for a token TEMPLATE<sep>DESIGNATOR whose designator is
\* already recorded, the call raises nothing and changes neither the map nor
\* the counters when TEMPLATE is the recorded template, and fails with the
\* redefinition error (changing nothing) when it is not; for a bare token
\* whose designator is already recorded the call never raises and changes
\* nothing, whatever template is recorded, and returns (token, token).
C2_RereferenceBareNeverFails ==
    [][IsRereference =>
         /\ ResolverUnchanged
         /\ IF Contains(ThisCall.inp, template_separator_char)
            THEN IF TokenTemplate(ThisCall.inp)
                      = designators_and_templates[TokenDesignator(ThisCall.inp)]
                 THEN ThisCall.err = "none"
                 ELSE ThisCall.err = "redefinition"
            ELSE /\ ThisCall.err = "none"
                 /\ ThisCall.template = ThisCall.inp
                 /\ ThisCall.designator = ThisCall.inp]_vars

\* a bare token was resolved without error although its designator had been
\* recorded with another template
C2_Witness ==
    \E j \in 2..Len(calls) :
        /\ ~Contains(calls[j].inp, template_separator_char)
        /\ calls[j].err = "none"
        /\ \E i \in 1..(j - 1) :
              /\ calls[i].err = "none"
              /\ calls[i].designator = calls[j].inp
              /\ calls[i].template # calls[j].inp

\* a token TEMPLATE<sep> with an empty designator
IsAnonymous(inp) ==
    /\ Count(inp, template_separator_char) = 1
    /\ SplitRight(inp, template_separator_char) = <<>>

\* how many of the first j calls were for the token inp
Occurrences(inp, j) == Cardinality({i \in 1..j : calls[i].inp = inp})

\* C3: the k-th anonymous token of template T resolves to __T_k, k counted
\* from 1 per template whatever is resolved in between; the counter of T is the
\* number of anonymous tokens of T seen so far, so it never decreases or hands
\* out a value twice; no two anonymous tokens resolve to the same designator.
C3_AutoNumbering ==
    /\ \A j \in 1..Len(calls) :
          IsAnonymous(calls[j].inp) /\ calls[j].err = "none" =>
              calls[j].designator =
                  <<"_", "_">> \o SplitLeft(calls[j].inp, template_separator_char)
                      \o <<"_">> \o <<Digit(Occurrences(calls[j].inp, j))>>
    /\ \A t \in DOMAIN autogenerated_designators :
          autogenerated_designators[t] = Occurrences(t \o Dot, Len(calls))
    /\ \A i, j \in 1..Len(calls) :
          /\ i # j
          /\ IsAnonymous(calls[i].inp) /\ IsAnonymous(calls[j].inp)
          /\ calls[i].err = "none" /\ calls[j].err = "none"
          => calls[i].designator # calls[j].designator

\* X1., W1., X1. resolved in this order: the second X1. is __X1_2
C3_Witness ==
    /\ Len(calls) >= 3
    /\ calls[1].inp = X1_anon /\ calls[2].inp = W1_anon /\ calls[3].inp = X1_anon
    /\ calls[3].err = "none"
    /\ calls[3].designator = <<"_", "_", "X", "1", "_", "2">>
    /\ calls[2].designator = <<"_", "_", "W", "1", "_", "1">>

\* the counts the elements of a raw row contribute: the length of a list, the
\* length of the expanded pin range of a mapping, nothing for a scalar
ContributedCounts(cs) ==
    {Len(cs[p].items) : p \in {q \in 1..Len(cs) : cs[q].kind = "list"}}
        \cup {Len(expand(cs[p].value)) : p \in {q \in 1..Len(cs) : cs[q].kind = "dict"}}

\* C4: the connection count of a row is 1 when no element contributes a count
\* and the common count when all contributed counts are equal; the row fails
\* with the inconsistent-connection-count error exactly when two contributed
\* counts differ.
C4_ConnectionCount ==
    /\ pc = "expand_strings" =>
          LET counts == ContributedCounts(connection_sets[row + 1])
          IN  /\ counts = {} => connectioncount = 1
              /\ \A c \in counts : connectioncount = c
    /\ pc = "error" /\ err = "inconsistent_count" =>
          Cardinality(ContributedCounts(connection_sets[row + 1])) > 1

\* the label of an instantiated or accepted designator
LabelOf(designator) == IF designator \in connectors THEN "connector" ELSE "cable/arrow"

\* the label the generate-components loop is to give a designator
LabelAsSpecified(designator) ==
    IF \/ designator \in connectors
       \/ designators_and_templates[designator] \in template_connectors
    THEN "connector"
    ELSE IF \/ designator \in cables
            \/ designators_and_templates[designator] \in template_cables
            \/ is_arrow(designator)
    THEN "cable/arrow"
    ELSE "unknown"

\* entry p of the row being generated has sub-items, and its first is labelled
Labelled(p) ==
    /\ p \in 1..Len(connection_set)
    /\ connection_set[p].pins # <<>>
    /\ p < index \/ (p = index /\ subindex > 1)

EntryLabel(p) == LabelOf(connection_set[p].pins[1].des)

\* the generate-components loop is about to label a sub-item
AtGenerateItem ==
    /\ pc = "generate"
    /\ index <= Len(connection_set)
    /\ subindex <= Len(connection_set[index].pins)

\* C5: while a row is generated, and once it has passed, the labels of two
\* consecutive entries differ; the first sub-item of a row never fails the
\* alternation check, however the row before ended; a sub-item that has the
\* label of the entry before it fails with the alternation error, and nothing
\* is instantiated for it.
C5_Alternation ==
    /\ [](/\ pc = "generate" =>
               \A p \in 1..Len(connection_set) :
                   Labelled(p) /\ Labelled(p + 1) => EntryLabel(p) # EntryLabel(p + 1)
          /\ pc = "connect" =>
               \A k \in 1..Len(connection_set) :
                   \A p \in 1..(Len(connection_set[k].pins) - 1) :
                       LabelOf(connection_set[k].pins[p].des)
                           # LabelOf(connection_set[k].pins[p + 1].des))
    /\ [][AtGenerateItem /\ index = 1 /\ subindex = 1 => err' # "alternation"]_vars
    /\ [][/\ AtGenerateItem
           /\ index > 1
           /\ connection_set[index - 1].pins # <<>>
           /\ LabelAsSpecified(connection_set[index].pins[subindex].des)
                = EntryLabel(index - 1)
           => /\ pc' = "error" /\ err' = "alternation"
              /\ connectors' = connectors /\ cables' = cables]_vars

\* a row starting with a cable was generated after a row that ended with a
\* cable, where the label expected next had been left at connector
C5_Witness ==
    /\ connection_sets = << <<Str(X1), Str(W1)>>, <<Str(W1), Str(X1)>> >>
    /\ row = 1
    /\ pc = "connect"

\* a raw row element that is an arrow
IsArrowElement(e) ==
    \/ e.kind \in {"str", "dict"} /\ is_arrow(e.tok)
    \/ e.kind = "list" /\ e.items # <<>> /\ \A k \in 1..Len(e.items) : is_arrow(e.items[k])

\* C6: no row whose first or last entry is an arrow is processed to completion.
C6_NoArrowAtBoundary ==
    \A r \in 1..row :
        connection_sets[r] # <<>> =>
            /\ ~IsArrowElement(connection_sets[r][1])
            /\ ~IsArrowElement(connection_sets[r][Len(connection_sets[r])])

\* the strands of the row have all been connected
RowConnected == pc = "connect" /\ index > Len(connection_set)

\* the recorded edges of kind op made at position p of the current row
EdgesAt(op, p) ==
    {k \in 1..Len(edges) : edges[k].op = op /\ edges[k].row = row + 1 /\ edges[k].pos = p}

\* C7: in a successfully processed row with connection count n, a cable entry
\* at position p has produced exactly n Connections.
C7_ConnectionPerStrand ==
    RowConnected =>
        \A p \in 1..Len(connection_sets[row + 1]) :
            LET e == connection_sets[row + 1][p]
            IN  e.kind \in {"str", "dict"} /\ e.tok \in cables =>
                    Cardinality(EdgesAt("connect", p)) = connectioncount

\* the connect loop is at an arrow that is neither first nor last in its strand
AtInteriorArrow ==
    /\ pc = "connect"
    /\ index <= Len(connection_set)
    /\ 1 < subindex /\ subindex < Len(connection_set[index].pins)
    /\ connection_set[index].pins[subindex].des \notin cables
    /\ is_arrow(connection_set[index].pins[subindex].des)

\* the sub-items around the connect loop's position
Left == connection_set[index].pins[subindex - 1]

Here == connection_set[index].pins[subindex]

Right == connection_set[index].pins[subindex + 1]

\* C8: at a pin-level arrow (containing "-") inside a strand, one pin-level Mate
\* between the sub-items before and after it is recorded, and no Connection;
\* when the row is done every such arrow of every strand has exactly one Mate.
C8_PinMate ==
    /\ [][AtInteriorArrow /\ Contains(Here.des, "-") =>
             /\ mates' = Append(mates,
                    [kind |-> "pin", from_name |-> Left.des, from_pin |-> Left.pin,
                     to_name |-> Right.des, to_pin |-> Right.pin, arrow |-> Here.des])
             /\ connections' = connections]_vars
    /\ [](RowConnected =>
             \A k \in 1..Len(connection_set) :
                 \A p \in 2..(Len(connection_set[k].pins) - 1) :
                     LET d == connection_set[k].pins[p].des
                     IN  d \notin cables /\ is_arrow(d) /\ Contains(d, "-") =>
                             /\ Cardinality({i \in EdgesAt("mate_pin", p) :
                                                edges[i].strand = k}) = 1
                             /\ EdgesAt("connect", p) = {}
                             /\ EdgesAt("mate_component", p) = {})

\* [{X1: 1-2}, -->, {X1.X2: 2-1}, {W1: 1-2}]: two strands, a Mate for each
C8_Witness ==
    /\ connection_sets =
          << <<Map(X1, Range12), Str(PinArrow), Map(X1_X2, Range21), Map(W1, Range12)>> >>
    /\ pc = "done"
    /\ mates =
          << [kind |-> "pin", from_name |-> X1, from_pin |-> 1, to_name |-> X2,
              to_pin |-> 2, arrow |-> PinArrow],
             [kind |-> "pin", from_name |-> X1, from_pin |-> 2, to_name |-> X2,
              to_pin |-> 1, arrow |-> PinArrow] >>

\* C9: at a component-level arrow (containing "=") inside a strand, one
\* component-level Mate between the designators before and after it is
\* recorded in the first strand and nothing in the other strands, and never a
\* Connection; when the row is done the arrow entry has exactly one Mate.
C9_ComponentMate ==
    /\ [][AtInteriorArrow /\ Contains(Here.des, "=") =>
             /\ mates' =
                    IF index = 1
                    THEN Append(mates,
                           [kind |-> "component", from_name |-> Left.des,
                            from_pin |-> NonePin, to_name |-> Right.des,
                            to_pin |-> NonePin, arrow |-> Here.des])
                    ELSE mates
             /\ connections' = connections]_vars
    /\ [](RowConnected /\ Len(connection_set) >= 1 =>
             \A p \in 2..(Len(connection_set[1].pins) - 1) :
                 LET d == connection_set[1].pins[p].des
                 IN  d \notin cables /\ is_arrow(d) /\ Contains(d, "=") =>
                         /\ Cardinality(EdgesAt("mate_component", p)) = 1
                         /\ \A i \in EdgesAt("mate_component", p) : edges[i].strand = 1)

\* [{X1: 2-1}, ==>, [X1., X1.]]: two strands, one Mate
C9_Witness ==
    /\ connection_sets =
          << <<Map(X1, Range21), Str(ComponentArrow), Lst(<<X1_anon, X1_anon>>)>> >>
    /\ pc = "done"
    /\ mates =
          << [kind |-> "component", from_name |-> X1, from_pin |-> NonePin,
              to_name |-> AutoName(X1, 1), to_pin |-> NonePin,
              arrow |-> ComponentArrow] >>

\* edge a is made before edge b in the order (row, strand, position)
EdgeBefore(a, b) ==
    \/ a.row < b.row
    \/ a.row = b.row /\ a.strand < b.strand
    \/ a.row = b.row /\ a.strand = b.strand /\ a.pos < b.pos

\* C10: Connections and Mates are recorded in the order (row, strand,
\* position); no edge belongs to a row after the one being processed; while a
\* row's components are still being resolved and generated no edge of that
\* row exists, and once its edges are recorded every component it names is
\* instantiated.
C10_Ordering ==
    /\ [](/\ \A i, j \in 1..Len(edges) : i < j => EdgeBefore(edges[i], edges[j])
          /\ \A i \in 1..Len(edges) : edges[i].row <= row + 1
          /\ pc \in {"rows", "expand_strings", "resolve", "generate", "done"} =>
                \A i \in 1..Len(edges) : edges[i].row <= row
          /\ Len(connections)
                = Cardinality({i \in 1..Len(edges) : edges[i].op = "connect"})
          /\ Len(mates) = Cardinality({i \in 1..Len(edges) : edges[i].op # "connect"})
          /\ pc = "connect" =>
                \A k \in 1..Len(connection_set) :
                    \A p \in 1..Len(connection_set[k].pins) :
                        LET d == connection_set[k].pins[p].des
                        IN  d \in connectors \/ d \in cables \/ is_arrow(d))
    /\ [][instantiated' # instantiated =>
             /\ edges' = edges
             /\ \A i \in 1..Len(edges) : edges[i].row <= row]_vars

\* two rows, the first with two strands, a Mate and a Connection in each
C10_Witness ==
    /\ connection_sets =
          << <<Map(X1, Range12), Str(PinArrow), Map(X1_X2, Range21), Map(W1, Range12)>>,
             <<Str(X1), Str(W1)>> >>
    /\ pc = "done"
    /\ Len(edges) = 5
    /\ edges[5].row = 2

\* the first call of resolve_designator that recorded designator d
FirstSeen(d) ==
    Min({j \in 1..Len(calls) : calls[j].err = "none" /\ calls[j].designator = d})

\* C11: a designator -> template pair, once recorded, is neither changed nor
\* removed by any later step, whether a call of resolve_designator succeeds or
\* raises; the template a designator is instantiated from is the one recorded
\* by the first call that saw the designator, and it is still the recorded one.
C11_OneTemplate ==
    /\ [][\A d \in DOMAIN designators_and_templates :
             /\ d \in DOMAIN designators_and_templates'
             /\ designators_and_templates'[d] = designators_and_templates[d]]_vars
    /\ [](\A i \in 1..Len(instantiated) :
             LET d == instantiated[i].name
             IN  /\ d \in DOMAIN designators_and_templates
                 /\ instantiated[i].template = designators_and_templates[d]
                 /\ instantiated[i].template = calls[FirstSeen(d)].template)

\* X2 was recorded and instantiated from template X1 by X1.X2; a later bare X2
\* returned the template X2 and left the recorded pair alone
C11_Witness ==
    /\ \E i \in 1..Len(instantiated) :
          instantiated[i].name = X2 /\ instantiated[i].template = X1
    /\ \E j \in 1..Len(calls) :
          calls[j].inp = X2 /\ calls[j].err = "none" /\ calls[j].template = X2
    /\ designators_and_templates[X2] = X1

\* the declared templates that are the recorded template of no designator
Unreferenced ==
    {c \in template_connectors \cup template_cables :
        \A d \in DOMAIN designators_and_templates : designators_and_templates[d] # c}

\* what the generate-components loop does for the sub-item it is at when the
\* unreferenced templates are taken out of the two registries
GenerateWithoutUnreferenced ==
    LET designator == connection_set[index].pins[subindex].des
        c == Classify(designator, designators_and_templates[designator],
                      connectors, cables,
                      template_connectors \ Unreferenced, template_cables \ Unreferenced)
        t == check_type(c.type, expected_type)
    IN  [raises |-> IF c.type = "unknown" THEN "unknown_reference"
                    ELSE IF t.raises THEN "alternation" ELSE "none",
         connectors |-> IF c.type # "unknown" /\ ~t.raises /\ c.add = "connector"
                        THEN connectors \cup {designator} ELSE connectors,
         cables |-> IF c.type # "unknown" /\ ~t.raises /\ c.add = "cable"
                    THEN cables \cup {designator} ELSE cables]

\* C12: once all rows are processed without error the pass completes, without
\* raising and without touching the harness; the warning is exactly the set of
\* declared connector and cable templates that are the recorded template of no
\* designator; and every step of the generate-components loop raises, and
\* leaves the connectors and cables, as it would with the unreferenced
\* templates not declared (no other step of the pass reads the registries).
C12_UnusedTemplates ==
    /\ [][pc = "rows" /\ row = Len(connection_sets) =>
             /\ pc' = "done" /\ err' = "none"
             /\ <<connectors, cables, connections, mates>>'
                  = <<connectors, cables, connections, mates>>]_vars
    /\ [](pc = "done" => err = "none" /\ warning = Unreferenced)
    /\ [][AtGenerateItem =>
             /\ err' = GenerateWithoutUnreferenced.raises
             /\ connectors' = GenerateWithoutUnreferenced.connectors
             /\ cables' = GenerateWithoutUnreferenced.cables]_vars
    /\ [][~AtGenerateItem => connectors' = connectors /\ cables' = cables]_vars

\* the wired harness built with X2 declared as a connector template as well:
\* the designator X2 is an instance of X1, and the template X2 is reported
C12_Witness ==
    /\ pc = "done"
    /\ template_connectors = {X1, X2}
    /\ warning = {X2}
    /\ connectors = {X1, X2}
    /\ Len(connections) = 3

\* C13: a call of resolve_designator for a token holding the separator more
\* than once raises the ambiguous-token error, whatever was resolved before,
\* and leaves the designator -> template map and every auto-numbering counter
\* as they were before the call.
C13_AmbiguousToken ==
    [][IsCall /\ Count(ThisCall.inp, template_separator_char) > 1 =>
         /\ ThisCall.err = "ambiguous"
         /\ pc' = "error" /\ err' = "ambiguous"
         /\ ResolverUnchanged]_vars

\* X1.X2.X2 was refused after designators had been recorded and numbered
C13_Witness ==
    /\ Len(calls) >= 3
    /\ calls[Len(calls)].inp = TwoSeparators
    /\ err = "ambiguous"
    /\ X2 \notin DOMAIN designators_and_templates
    /\ DOMAIN autogenerated_designators # {}

\* the sub-item the generate-components loop is at
GenerateDesignator == connection_set[index].pins[subindex].des

\* the instance the generate-components loop is to create for a designator:
\* none for an existing instance, else by the kind of its recorded template
NewInstanceKind(designator) ==
    IF designator \in connectors \cup cables THEN "none"
    ELSE IF designators_and_templates[designator] \in template_connectors THEN "connector"
    ELSE IF designators_and_templates[designator] \in template_cables THEN "cable"
    ELSE "none"

\* C14: no designator is instantiated twice, and the connectors and cables of
\* the harness are exactly the designators instantiated; a sub-item is labelled
\* connector if its designator is a connector instance or its recorded template
\* a connector template, else cable/arrow if it is a cable instance, its
\* recorded template a cable template, or it is an arrow; a labelled sub-item
\* that passes the alternation check is instantiated from its recorded
\* template exactly when its designator is not yet an instance, so a reference
\* to an existing instance, in the same or a later row, instantiates nothing.
C14_InstantiatedOnce ==
    /\ [](/\ \A i, j \in 1..Len(instantiated) :
                i # j => instantiated[i].name # instantiated[j].name
          /\ connectors = {instantiated[i].name :
                             i \in {k \in 1..Len(instantiated) :
                                       instantiated[k].kind = "connector"}}
          /\ cables = {instantiated[i].name :
                         i \in {k \in 1..Len(instantiated) :
                                   instantiated[k].kind = "cable"}})
    /\ [][AtGenerateItem /\ LabelAsSpecified(GenerateDesignator) # "unknown" =>
             /\ err' \in {"none", "alternation"}
             /\ err' = "none" => expected_type' = LabelAsSpecified(GenerateDesignator)
             /\ err' = "alternation" =>
                   expected_type \notin {"None", LabelAsSpecified(GenerateDesignator)}
             /\ instantiated' =
                   IF err' = "none" /\ NewInstanceKind(GenerateDesignator) # "none"
                   THEN Append(instantiated,
                               [kind |-> NewInstanceKind(GenerateDesignator),
                                name |-> GenerateDesignator,
                                template |-> designators_and_templates[GenerateDesignator],
                                row |-> row + 1])
                   ELSE instantiated
             /\ err' = "none" =>
                   \/ GenerateDesignator \in connectors' \cup cables'
                   \/ is_arrow(GenerateDesignator)]_vars
    /\ [][AtGenerateItem /\ GenerateDesignator \in connectors \cup cables =>
             /\ instantiated' = instantiated
             /\ connectors' = connectors
             /\ cables' = cables]_vars
    /\ [][~AtGenerateItem => instantiated' = instantiated]_vars

\* X1 is referenced twice in the first row and again in the second, W1 twice
\* in the first row and again in the second: three instances in all
C14_Witness ==
    /\ connection_sets =
          << <<Map(X1, Range12), Str(PinArrow), Map(X1_X2, Range21), Map(W1, Range12)>>,
             <<Str(X1), Str(W1)>> >>
    /\ pc = "done"
    /\ Len(instantiated) = 3
    /\ instantiated[1].name = X1 /\ instantiated[1].row = 1

\* a designator that is no instance, whose recorded template is declared in
\* neither section, and that is not an arrow
IsUnknownReference(designator) ==
    /\ designator \notin connectors
    /\ designator \notin cables
    /\ designators_and_templates[designator] \notin template_connectors
    /\ designators_and_templates[designator] \notin template_cables
    /\ ~is_arrow(designator)

\* C15: when the generate-components loop comes to a sub-item whose designator
\* is no connector or cable instance, has a recorded template that is declared
\* in neither section, and is not an arrow, the pass fails there with the
\* unknown-reference error, before the alternation check and without touching
\* the harness, whatever instances exist already; the error is raised for no
\* other sub-item, and no row with such a sub-item gets as far as being
\* connected.
C15_UnknownReference ==
    /\ [][AtGenerateItem /\ IsUnknownReference(GenerateDesignator) =>
             /\ pc' = "error" /\ err' = "unknown_reference"
             /\ expected_type' = expected_type
             /\ <<connectors, cables, connections, mates>>'
                  = <<connectors, cables, connections, mates>>]_vars
    /\ [](/\ pc = "error" /\ err = "unknown_reference" =>
                /\ index <= Len(connection_set)
                /\ subindex <= Len(connection_set[index].pins)
                /\ IsUnknownReference(GenerateDesignator)
          /\ pc = "connect" =>
                \A k \in 1..Len(connection_set) :
                    \A p \in 1..Len(connection_set[k].pins) :
                        ~IsUnknownReference(connection_set[k].pins[p].des))

\* the bare token X2 of the second row names a new designator of the
\* undeclared template X2, with X1 and W1 instantiated by the first row
C15_Witness ==
    /\ pc = "error" /\ err = "unknown_reference"
    /\ row = 1
    /\ connectors = {X1} /\ cables = {W1}
    /\ GenerateDesignator = X2
    /\ designators_and_templates[X2] = X2
    /\ X2 \notin template_connectors

\* the pin the claim gives position k of the raw row element e
PinAsSpecified(e, k) == IF e.kind = "dict" THEN expand(e.value)[k] ELSE 1

\* C16: once a row with connection count n is normalized every element is a
\* list of exactly n {designator: pin} items, with pin 1 at every position of
\* a scalar or list element and the k-th pin of the expanded range at position
\* k of a mapping element; the transposed row has exactly n strands, each with
\* one sub-item for every element of the row, in written order.
C16_Normalized ==
    /\ pc = "generate" =>
          \A p \in 1..Len(connection_set) :
              /\ Len(connection_set[p].pins) = connectioncount
              /\ \A k \in 1..Len(connection_set[p].pins) :
                    connection_set[p].pins[k].pin
                        = PinAsSpecified(connection_sets[row + 1][p], k)
    /\ pc = "connect" =>
          /\ Len(connection_set) = connectioncount
          /\ \A k \in 1..Len(connection_set) :
                /\ Len(connection_set[k].pins) = Len(connection_sets[row + 1])
                /\ \A p \in 1..Len(connection_set[k].pins) :
                      connection_set[k].pins[p].pin
                          = PinAsSpecified(connection_sets[row + 1][p], k)

\* C17: every recorded Connection has an instantiated cable for its via and an
\* instantiated connector for each of from and to that is present; every
\* recorded Mate, pin-level or component-level, has instantiated connectors for
\* both of its endpoints.
C17_EndpointsInstantiated ==
    /\ \A i \in 1..Len(connections) :
          /\ connections[i].via_name \in cables
          /\ connections[i].from_name # None => connections[i].from_name \in connectors
          /\ connections[i].to_name # None => connections[i].to_name \in connectors
    /\ \A i \in 1..Len(mates) :
          /\ mates[i].from_name \in connectors
          /\ mates[i].to_name \in connectors

\* C18: no designator is both a connector instance and a cable instance; every
\* connector instance is a key of the designator -> template map recorded with
\* a declared connector template, and every cable instance one recorded with a
\* declared cable template.
C18_InstancesOfDeclaredTemplates ==
    /\ connectors \cap cables = {}
    /\ \A d \in connectors :
          /\ d \in DOMAIN designators_and_templates
          /\ designators_and_templates[d] \in template_connectors
    /\ \A d \in cables :
          /\ d \in DOMAIN designators_and_templates
          /\ designators_and_templates[d] \in template_cables

\* W1 is declared in both sections and was instantiated as a connector, next
\* to an instance whose designator differs from its template
C18_Witness ==
    /\ W1 \in template_connectors \cap template_cables
    /\ W1 \in connectors
    /\ X2 \in connectors
    /\ designators_and_templates[X2] = X1
    /\ pc = "done"

\* the sub-item before the one the generate-components loop is at, in the
\* same entry
PreviousInEntry == connection_set[index].pins[subindex - 1].des

\* the generate-components loop has checked every sub-item of its entry
AtAlternateType ==
    /\ pc = "generate"
    /\ index <= Len(connection_set)
    /\ subindex > Len(connection_set[index].pins)

\* C19: every sub-item of an entry is checked against the expected label, which
\* stays as it is from one sub-item of the entry to the next and flips once
\* when the entry is done, so the sub-items of an entry that have passed all
\* carry one label; a sub-item with the label of the sub-item before it passes,
\* and one with the other label fails with the alternation error, with nothing
\* instantiated for it.
C19_OneLabelPerEntry ==
    /\ [](pc = "generate" =>
             \A p \in 1..Len(connection_set) :
                 \A k \in 2..Len(connection_set[p].pins) :
                     p < index \/ (p = index /\ k < subindex) =>
                         LabelOf(connection_set[p].pins[k].des)
                             = LabelOf(connection_set[p].pins[1].des))
    /\ [][AtGenerateItem /\ subindex > 1
            /\ LabelAsSpecified(GenerateDesignator) = LabelOf(PreviousInEntry)
            => /\ err' = "none"
               /\ expected_type' = expected_type]_vars
    /\ [][AtGenerateItem /\ subindex > 1
            /\ LabelAsSpecified(GenerateDesignator)
                 \notin {"unknown", LabelOf(PreviousInEntry)}
            => /\ pc' = "error" /\ err' = "alternation"
               /\ connectors' = connectors
               /\ cables' = cables
               /\ instantiated' = instantiated]_vars
    /\ [][AtAlternateType /\ connection_set[index].pins # <<>> =>
             /\ err' = "none"
             /\ expected_type' # expected_type
             /\ expected_type' # LabelOf(connection_set[index].pins[1].des)]_vars

\* the list entry [X1, W1]: X1 is instantiated, W1 fails the check and is not
C19_Witness ==
    /\ connection_sets = << <<Lst(<<X1, W1>>)>> >>
    /\ template_connectors = {X1}
    /\ pc = "error" /\ err = "alternation"
    /\ subindex = 2
    /\ connectors = {X1}
    /\ cables = {}

====
